---- MODULE Spec2Model ----
(***************************************************************************)
(* A model of pyre, a regular expression engine built on Brzozowski        *)
(* derivatives: the interned term algebra of regex.py, the worklist DFA    *)
(* construction and the match / search drivers of dfa.py, and the group    *)
(* numbering the grammar actions of parser.py give to the leaves.          *)
(*                                                                         *)
(* A term is represented by its interning key (regex.py keeps exactly one  *)
(* object per key in Regex._instance, so the key is the object's           *)
(* identity); the attributes an object gets when it is first created       *)
(* (left/right/expr, group, charset) are kept in the table `instance`.     *)
(* Every constructor, nullable() and derive() call therefore takes the     *)
(* table and returns the table it leaves behind next to its result.        *)
(***************************************************************************)
EXTENDS Integers, Sequences, FiniteSets, TLC

\* ------------------------------------------------------------------ bounds

\* Size of the alphabet the model runs on (the code's alphabet has 256 code
\* points).  Character 1 plays 'a' and 2 plays 'b'; character 0, and those
\* above 2, play the bytes no pattern names.  The lowest code point is one of
\* those, as in the code, where compile takes the derivative of a class by
\* its lowest code point: NUL for every class but the letters' own.
NumChars == 3
\* Longest input string handed to match / search.
MaxLen == 3
\* Cap on the number of DFA states one compile may label.
MaxStates == 8
\* Most literals in a pattern made of groups and literals only.
MaxLits == 3

Chars == 0 .. (NumChars - 1)
Full == Chars

\* ---------------------------------------------------------------- helpers

Min(S) == CHOOSE x \in S : \A y \in S : x <= y

\* Sequencing: Then(v, K) hands the value v of one call to what follows it.
Then(v, K(_)) == K(v)

\* kwargs of a constructor call: the model carries the one keyword the
\* parser passes to every node, group=<stack of open groups>.  NoKw is a
\* call without keywords, Kw(G) a call with group=G.
NoKw == {}
Kw(G) == {G}

\* ------------------------------------------------------------- interning

\* The key under which Regex._instance holds an object.
Key(cls, mask, neg, kw, aset, aseq) ==
    [cls |-> cls, mask |-> mask, neg |-> neg, kw |-> kw, aset |-> aset, aseq |-> aseq]

\* Regex.__new__: the group attribute of a newly created object.
NewGroup(kw, args, tab) ==
    IF kw = NoKw
    THEN UNION {tab[args[i]].group : i \in 1 .. Len(args)}
    ELSE CHOOSE G \in kw : TRUE

\* try: self = Regex._instance[key] / except KeyError: create and store.
Intern(key, kids, grp, cs, tab) ==
    IF key \in DOMAIN tab
    THEN [t |-> key, tab |-> tab]
    ELSE [t |-> key, tab |-> tab @@ (key :> [kids |-> kids, group |-> grp, charset |-> cs])]

\* A faulty CharSet.__and__ that keeps the left operand's classes only, so
\* that a class may hold characters with different derivatives.
CharSetAndLeft(A, B) == A

\* A faulty CharSet.__and__ that puts the classes of both operands side by
\* side instead of intersecting them.
CharSetAndBoth(A, B) == A \cup B

\* CharSet.__and__: pairwise intersection, empty masks dropped.
CharSetAnd(A, B) == {i \cap j : i \in A, j \in B} \ {{}}

isempty(t) == t.cls = "Empty"
isepsilon(t) == t.cls = "Epsilon"
isstar(t) == t.cls = "Star"
isplus(t) == t.cls = "Plus"
isdot(t) == t.cls = "Dot"
isexpr(t) == t.cls = "Expr"
isnot(t) == t.cls = "Not"
\* isany is set by RegexStar (expr.isdot) and by RegexNot (expr.isempty).
isany(t) ==
    \/ t.cls = "Star" /\ isdot(t.aseq[1])
    \/ t.cls = "Not" /\ isempty(t.aseq[1])

left(t, tab) == tab[t].kids[1]
right(t, tab) == tab[t].kids[2]
expr(t, tab) == tab[t].kids[1]

\* Regex.find: is `look` t itself or below t through nodes of the classes `types`.
RECURSIVE find(_, _, _, _)
find(t, types, look, tab) ==
    \/ /\ t.cls \in types
       /\ \E i \in 1 .. Len(tab[t].kids) : find(tab[t].kids[i], types, look, tab)
    \/ t = look

\* Regex.get_args: the leaves of the tree of `cls` nodes rooted at t, left to right.
RECURSIVE get_args(_, _, _)
get_args(t, cls, tab) ==
    IF t.cls = cls
    THEN IF Len(tab[t].kids) = 2
         THEN get_args(tab[t].kids[1], cls, tab) \o get_args(tab[t].kids[2], cls, tab)
         ELSE get_args(tab[t].kids[1], cls, tab)
    ELSE <<t>>

Range(s) == {s[i] : i \in 1 .. Len(s)}

\* ----------------------------------------------------------- constructors

RegexEmpty(kw, tab) ==
    Intern(Key("Empty", {}, FALSE, kw, {}, <<>>), <<>>, NewGroup(kw, <<>>, tab), {Full}, tab)

RegexEpsilon(kw, tab) ==
    Intern(Key("Epsilon", {}, FALSE, kw, {}, <<>>), <<>>, NewGroup(kw, <<>>, tab), {Full}, tab)

RegexDot(kw, tab) ==
    Intern(Key("Dot", {}, FALSE, kw, {}, <<>>), <<>>, NewGroup(kw, <<>>, tab), {Full}, tab)

\* The positional argument of RegexSym is a character or a CharSet, never a
\* term, so without a group keyword the new object's group is empty.
RegexSym(mask, negate, kw, tab) ==
    Intern(Key("Sym", mask, negate, kw, {}, <<>>), <<>>, NewGroup(kw, <<>>, tab),
           {mask, Full \ mask}, tab)

RegexNot(e, kw, tab) ==
    IF isnot(e)
    THEN [t |-> expr(e, tab), tab |-> tab]
    ELSE Intern(Key("Not", {}, FALSE, kw, {}, <<e>>), <<e>>, NewGroup(kw, <<e>>, tab),
                tab[e].charset, tab)

RegexOr(l, r, kw, tab) ==
    IF find(l, {"Or", "Expr"}, r, tab) THEN [t |-> l, tab |-> tab]
    ELSE IF isany(l) \/ isany(r)
    THEN Then(RegexEmpty(NoKw, tab), LAMBDA e : RegexNot(e.t, NoKw, e.tab))
    ELSE IF isempty(l) THEN [t |-> r, tab |-> tab]
    ELSE IF isempty(r) THEN [t |-> l, tab |-> tab]
    ELSE LET args == get_args(l, "Or", tab) \o get_args(r, "Or", tab)
         IN Intern(Key("Or", {}, FALSE, kw, Range(args), <<>>), <<l, r>>,
                   NewGroup(kw, <<l, r>>, tab),
                   CharSetAnd(tab[l].charset, tab[r].charset), tab)

RegexXor(l, r, kw, tab) ==
    IF isempty(l) THEN [t |-> r, tab |-> tab]
    ELSE IF isempty(r) THEN [t |-> l, tab |-> tab]
    ELSE IF isempty(l) /\ isempty(r) THEN RegexEmpty(NoKw, tab)
    ELSE LET args == get_args(l, "Xor", tab) \o get_args(r, "Xor", tab)
         IN Intern(Key("Xor", {}, FALSE, kw, Range(args), <<>>), <<l, r>>,
                   NewGroup(kw, <<l, r>>, tab),
                   CharSetAnd(tab[l].charset, tab[r].charset), tab)

RegexAnd(l, r, kw, tab) ==
    IF find(l, {"And", "Expr"}, r, tab) THEN [t |-> l, tab |-> tab]
    ELSE IF isempty(l) \/ isempty(r) THEN RegexEmpty(NoKw, tab)
    ELSE IF isany(l) THEN [t |-> r, tab |-> tab]
    ELSE IF isany(r) THEN [t |-> l, tab |-> tab]
    ELSE LET args == get_args(l, "And", tab) \o get_args(r, "And", tab)
         IN Intern(Key("And", {}, FALSE, kw, Range(args), <<>>), <<l, r>>,
                   NewGroup(kw, <<l, r>>, tab),
                   CharSetAnd(tab[l].charset, tab[r].charset), tab)

RegexStar(e, kw, tab) ==
    IF isepsilon(e) \/ isstar(e) THEN [t |-> e, tab |-> tab]
    ELSE IF isempty(e) THEN RegexEpsilon(NoKw, tab)
    ELSE Intern(Key("Star", {}, FALSE, kw, {}, <<e>>), <<e>>, NewGroup(kw, <<e>>, tab),
                tab[e].charset, tab)

RegexPlus(e, kw, tab) ==
    IF isplus(e) THEN [t |-> e, tab |-> tab]
    ELSE Intern(Key("Plus", {}, FALSE, kw, {}, <<e>>), <<e>>, NewGroup(kw, <<e>>, tab),
                tab[e].charset, tab)

\* RegexOpt hands no positional argument to Regex.__new__, so without a
\* group keyword its group is empty.
RegexOpt(e, kw, tab) ==
    Intern(Key("Opt", {}, FALSE, kw, {}, <<e>>), <<e>>, NewGroup(kw, <<>>, tab),
           tab[e].charset, tab)

\* A faulty RegexDiff that applies r - 0 = r to every subtrahend.
RegexDiffKeepLeft(l, r, kw, tab) == [t |-> l, tab |-> tab]

RegexDiff(l, r, kw, tab) ==
    IF l = r THEN RegexEmpty(NoKw, tab)
    ELSE IF isempty(l) THEN RegexEmpty(NoKw, tab)
    ELSE IF isempty(r) THEN [t |-> l, tab |-> tab]
    ELSE IF isany(l) THEN RegexNot(r, NoKw, tab)
    ELSE IF isany(r) THEN RegexEmpty(NoKw, tab)
    ELSE LET args == get_args(l, "Diff", tab) \o get_args(r, "Diff", tab)
         IN Intern(Key("Diff", {}, FALSE, kw, {}, args), <<l, r>>,
                   NewGroup(kw, <<l, r>>, tab),
                   CharSetAnd(tab[l].charset, tab[r].charset), tab)

RegexExpr(e, kw, tab) ==
    IF isexpr(e) THEN [t |-> expr(e, tab), tab |-> tab]
    ELSE IF isepsilon(e) THEN RegexEpsilon(Kw(tab[e].group), tab)
    ELSE IF isempty(e) THEN RegexEmpty(NoKw, tab)
    ELSE Intern(Key("Expr", {}, FALSE, kw, {}, <<e>>), <<e>>, NewGroup(kw, <<e>>, tab),
                tab[e].charset, tab)

\* ------------------------------------------------------------ nullability

\* A faulty nullable() whose Epsilon answers Empty.
RECURSIVE nullableEpsilonLost(_, _)
nullableEpsilonLost(t, tab) ==
    CASE t.cls = "Epsilon" -> RegexEmpty(NoKw, tab)
      [] t.cls \in {"Star", "Opt"} -> RegexEpsilon(NoKw, tab)
      [] t.cls \in {"Plus", "Expr"} -> nullableEpsilonLost(expr(t, tab), tab)
      [] t.cls = "Not" ->
            Then(nullableEpsilonLost(expr(t, tab), tab), LAMBDA n :
            IF isepsilon(n.t) THEN RegexEmpty(NoKw, n.tab) ELSE RegexEpsilon(NoKw, n.tab))
      [] t.cls \in {"Or", "Xor", "And", "Diff", "Concat"} ->
            Then(nullableEpsilonLost(left(t, tab), tab), LAMBDA l :
            Then(nullableEpsilonLost(right(t, tab), l.tab), LAMBDA r :
            CASE t.cls = "Or" -> RegexOr(l.t, r.t, NoKw, r.tab)
              [] t.cls = "Xor" -> RegexXor(l.t, r.t, NoKw, r.tab)
              [] t.cls = "Diff" -> RegexDiff(l.t, r.t, NoKw, r.tab)
              [] OTHER -> RegexAnd(l.t, r.t, NoKw, r.tab)))
      [] OTHER -> RegexEmpty(NoKw, tab)

\* nullable(): the term standing for nu(t).  The binary variants build it
\* with their own constructor, so the answer need not be Epsilon or Empty.
RECURSIVE nullable(_, _)
nullable(t, tab) ==
    CASE t.cls = "Epsilon" -> [t |-> t, tab |-> tab]
      [] t.cls \in {"Star", "Opt"} -> RegexEpsilon(NoKw, tab)
      [] t.cls \in {"Plus", "Expr"} -> nullable(expr(t, tab), tab)
      [] t.cls = "Not" ->
            Then(nullable(expr(t, tab), tab), LAMBDA n :
            IF isepsilon(n.t) THEN RegexEmpty(NoKw, n.tab) ELSE RegexEpsilon(NoKw, n.tab))
      [] t.cls \in {"Or", "Xor", "And", "Diff", "Concat"} ->
            Then(nullable(left(t, tab), tab), LAMBDA l :
            Then(nullable(right(t, tab), l.tab), LAMBDA r :
            CASE t.cls = "Or" -> RegexOr(l.t, r.t, NoKw, r.tab)
              [] t.cls = "Xor" -> RegexXor(l.t, r.t, NoKw, r.tab)
              [] t.cls = "Diff" -> RegexDiff(l.t, r.t, NoKw, r.tab)
              [] OTHER -> RegexAnd(l.t, r.t, NoKw, r.tab)))
      [] OTHER -> RegexEmpty(NoKw, tab)

isnullable(t, tab) == isepsilon(nullable(t, tab).t)

RegexConcat(l, r, kw, tab) ==
    IF isempty(l) \/ isempty(r) THEN RegexEmpty(NoKw, tab)
    ELSE IF isepsilon(l) THEN [t |-> r, tab |-> tab]
    ELSE IF isepsilon(r) THEN [t |-> l, tab |-> tab]
    ELSE Then(Key("Concat", {}, FALSE, kw, {},
                  get_args(l, "Concat", tab) \o get_args(r, "Concat", tab)), LAMBDA key :
         IF key \in DOMAIN tab
         THEN [t |-> key, tab |-> tab]
         ELSE Then(nullable(l, tab), LAMBDA n :
              Intern(key, <<l, r>>, NewGroup(kw, <<l, r>>, tab),
                     IF isepsilon(n.t)
                     THEN CharSetAnd(tab[l].charset, tab[r].charset)
                     ELSE tab[l].charset,
                     n.tab)))

\* -------------------------------------------------------------- derivative

\* Sym.derive's test: does the leaf accept ch.
SymMatch(t, ch) == (~t.neg /\ ch \in t.mask) \/ (t.neg /\ ch \notin t.mask)

\* A faulty Diff.derive that hands its own flag to the right operand.
RightFlagSame(t, neg) == neg

\* negate_states as a binary node hands it to its right operand: Diff.derive
\* passes `not negate_states`, the others pass it on.
RightFlag(t, neg) == IF t.cls = "Diff" THEN ~neg ELSE neg

\* derive(ch, states, negate_states): .t the derivative, .st the leaves the
\* call added to `states`, .tab the table afterwards.
RECURSIVE derive(_, _, _, _)
derive(t, ch, neg, tab) ==
    CASE t.cls = "Empty" -> [t |-> t, st |-> {}, tab |-> tab]
      [] t.cls = "Epsilon" ->
            Then(RegexEmpty(NoKw, tab), LAMBDA e : [t |-> e.t, st |-> {}, tab |-> e.tab])
      [] t.cls = "Sym" ->
            Then(IF SymMatch(t, ch) THEN RegexEpsilon(NoKw, tab) ELSE RegexEmpty(NoKw, tab),
                 LAMBDA e :
            [t |-> e.t, st |-> IF SymMatch(t, ch) # neg THEN {t} ELSE {}, tab |-> e.tab])
      [] t.cls = "Dot" ->
            Then(RegexEpsilon(NoKw, tab), LAMBDA e :
            [t |-> e.t, st |-> IF ~neg THEN {t} ELSE {}, tab |-> e.tab])
      [] t.cls \in {"Or", "Xor", "And", "Diff"} ->
            Then(derive(left(t, tab), ch, neg, tab), LAMBDA l :
            Then(derive(right(t, tab), ch, RightFlag(t, neg), l.tab),
                 LAMBDA r :
            Then(CASE t.cls = "Or" -> RegexOr(l.t, r.t, NoKw, r.tab)
                   [] t.cls = "Xor" -> RegexXor(l.t, r.t, NoKw, r.tab)
                   [] t.cls = "And" -> RegexAnd(l.t, r.t, NoKw, r.tab)
                   [] OTHER -> RegexDiff(l.t, r.t, NoKw, r.tab), LAMBDA c :
            [t |-> c.t, st |-> l.st \cup r.st, tab |-> c.tab])))
      [] t.cls = "Star" ->
            Then(derive(expr(t, tab), ch, neg, tab), LAMBDA d :
            Then(RegexConcat(d.t, t, NoKw, d.tab), LAMBDA c :
            [t |-> c.t, st |-> d.st, tab |-> c.tab]))
      [] t.cls = "Plus" ->
            Then(derive(expr(t, tab), ch, neg, tab), LAMBDA d :
            Then(RegexStar(expr(t, tab), NoKw, d.tab), LAMBDA s :
            Then(RegexConcat(d.t, s.t, NoKw, s.tab), LAMBDA c :
            [t |-> c.t, st |-> d.st, tab |-> c.tab])))
      [] t.cls = "Opt" -> derive(expr(t, tab), ch, neg, tab)
      [] t.cls = "Concat" ->
            Then(derive(left(t, tab), ch, neg, tab), LAMBDA dl :
            Then(RegexConcat(dl.t, right(t, tab), NoKw, dl.tab), LAMBDA lc :
            Then(nullable(left(t, tab), lc.tab), LAMBDA nl :
            Then(derive(right(t, tab), ch, neg, nl.tab), LAMBDA dr :
            Then(RegexConcat(nl.t, dr.t, NoKw, dr.tab), LAMBDA rc :
            Then(RegexOr(lc.t, rc.t, NoKw, rc.tab), LAMBDA res :
            [t |-> res.t,
             st |-> (IF ~isempty(lc.t) THEN dl.st ELSE {})
                    \cup (IF ~isempty(rc.t) THEN dr.st ELSE {}),
             tab |-> res.tab]))))))
      [] t.cls = "Not" ->
            Then(derive(expr(t, tab), ch, ~neg, tab), LAMBDA d :
            Then(RegexNot(d.t, NoKw, d.tab), LAMBDA c :
            [t |-> c.t, st |-> d.st, tab |-> c.tab]))
      [] OTHER ->  \* Expr
            Then(derive(expr(t, tab), ch, neg, tab), LAMBDA d :
            Then(RegexExpr(d.t, NoKw, d.tab), LAMBDA c :
            [t |-> c.t, st |-> d.st, tab |-> c.tab]))

\* ------------------------------------------------------------------ parser

\* A pattern as the grammar of parser.py reads it.  op is the production
\* ("sym" also stands for a bracketed class: mask and neg are its set and
\* its '^'), kids the operands in source order.
\* lo and hi are the bounds of a counted repetition; None is a bound left out.
None == -1
Node(op, mask, neg, kids) ==
    [op |-> op, mask |-> mask, neg |-> neg, kids |-> kids, lo |-> None, hi |-> None]
Lit(c) == Node("sym", {c}, FALSE, <<>>)
Cls(mask, neg) == Node("sym", mask, neg, <<>>)
Dot == Node("dot", {}, FALSE, <<>>)
Eps == Node("eps", {}, FALSE, <<>>)
Cat(x, y) == Node("cat", {}, FALSE, <<x, y>>)
Or(x, y) == Node("or", {}, FALSE, <<x, y>>)
And(x, y) == Node("and", {}, FALSE, <<x, y>>)
Diff(x, y) == Node("diff", {}, FALSE, <<x, y>>)
Xor(x, y) == Node("xor", {}, FALSE, <<x, y>>)
Not(x) == Node("not", {}, FALSE, <<x>>)

\* Pattern texts the parser finds fault with.  Illegal(x) is the text of x
\* with a character in it that no rule of the lexer matches (a line feed, or
\* a letter between the braces of a repetition): t_error and t_repeat_error
\* log it and skip it, and the tokens of x are what the grammar gets.
\* BadRange(neg) is a class whose only range runs downwards, as in [z-a]:
\* p_range_span logs it and hands on an empty list.  Syntax(x) is the text of
\* x followed by a token the grammar does not take there: p_error is called.
Illegal(x) == Node("illegal", {}, FALSE, <<x>>)
BadRange(neg) == Node("badrange", {}, neg, <<>>)
Syntax(x) == Node("syntax", {}, FALSE, <<x>>)

\* parser.errors after parse: p_error alone counts.
RECURSIVE errors(_)
errors(n) ==
    (IF n.op = "syntax" THEN 1 ELSE 0)
    + (IF Len(n.kids) >= 1 THEN errors(n.kids[1]) ELSE 0)
    + (IF Len(n.kids) >= 2 THEN errors(n.kids[2]) ELSE 0)
Star(x) == Node("star", {}, FALSE, <<x>>)
Plus(x) == Node("plus", {}, FALSE, <<x>>)
Opt(x) == Node("opt", {}, FALSE, <<x>>)
Grp(x) == Node("grp", {}, FALSE, <<x>>)
\* x{n} (rspec : INTEGER) and x{lo,hi}, x{lo,}, x{,hi} (the rspec tuples).
RepN(x, n) == [Node("repn", {}, FALSE, <<x>>) EXCEPT !.lo = n]
Rep(x, lo, hi) == [Node("rep", {}, FALSE, <<x>>) EXCEPT !.lo = lo, !.hi = hi]

\* make_cat(expr, num) of p_primary_repeat: expr, then num - 1 times
\* RegexConcat(cat, expr); for num = 0 the loop does not run either.
\* A faulty make_cat that always makes two copies.
make_catTwice(e, num, tab) == RegexConcat(e, e, NoKw, tab)

RECURSIVE make_cat(_, _, _)
make_cat(e, num, tab) ==
    IF num <= 1 THEN [t |-> e, tab |-> tab]
    ELSE Then(make_cat(e, num - 1, tab), LAMBDA c : RegexConcat(c.t, e, NoKw, c.tab))

\* The loops `for k in range(.., hi + 1)` of p_primary_repeat from k on, p0
\* being p[0] so far: p[0] = RegexOr(p[0], make_cat(p[1], k)).
RECURSIVE RepeatOr(_, _, _, _, _)
RepeatOr(e, p0, k, hi, tab) ==
    IF k > hi THEN [t |-> p0, tab |-> tab]
    ELSE Then(IF k = 0 THEN RegexEpsilon(NoKw, tab) ELSE make_cat(e, k, tab), LAMBDA c :
         Then(RegexOr(p0, c.t, NoKw, c.tab), LAMBDA o :
         RepeatOr(e, o.t, k + 1, hi, o.tab)))

\* p_primary_repeat on the term e of the repeated primary.
Repeat(e, n, tab) ==
    IF n.op = "repn" THEN make_cat(e, n.lo, tab)
    ELSE IF n.lo = None /\ n.hi # None
    THEN Then(RegexEpsilon(NoKw, tab), LAMBDA z : RepeatOr(e, z.t, 1, n.hi, z.tab))
    ELSE IF n.lo = 0 /\ n.hi = None THEN RegexStar(e, NoKw, tab)
    ELSE IF n.lo # None /\ n.hi = None
    THEN Then(make_cat(e, n.lo, tab), LAMBDA base :
         Then(RegexStar(e, NoKw, base.tab), LAMBDA st :
         RegexConcat(base.t, st.t, NoKw, st.tab)))
    ELSE Then(IF n.lo = 0 THEN RegexEpsilon(NoKw, tab) ELSE make_cat(e, n.lo, tab),
              LAMBDA c : RepeatOr(e, c.t, n.lo + 1, n.hi, c.tab))

\* The grammar actions, run bottom-up in source order.  G is lexer.groups
\* when the node's token is read (TokenValue copies it into the keywords),
\* cnt is lexer.group_count.  t_LPAREN makes its TokenValue before it pushes
\* the new group, so an Expr carries the enclosing stack and its contents the
\* stack with the new group on it.  p_concat_list, p_primary_plus and
\* p_literal_epsilon pass no keywords, and neither does p_primary_repeat.
RECURSIVE Build(_, _, _, _)
Build(n, G, cnt, tab) ==
    CASE n.op \in {"illegal", "syntax"} -> Build(n.kids[1], G, cnt, tab)
      [] n.op \in {"sym", "badrange", "dot", "eps"} ->
            Then(CASE n.op = "sym" -> RegexSym(n.mask, n.neg, Kw(G), tab)
                   [] n.op = "badrange" -> RegexSym({}, n.neg, NoKw, tab)
                   [] n.op = "dot" -> RegexDot(Kw(G), tab)
                   [] OTHER -> RegexEpsilon(NoKw, tab), LAMBDA r :
            [t |-> r.t, cnt |-> cnt, tab |-> r.tab])
      [] n.op = "grp" ->
            Then(Build(n.kids[1], G \cup {cnt}, cnt + 1, tab), LAMBDA e :
            Then(RegexExpr(e.t, Kw(G), e.tab), LAMBDA r :
            [t |-> r.t, cnt |-> e.cnt, tab |-> r.tab]))
      [] n.op \in {"repn", "rep"} ->
            Then(Build(n.kids[1], G, cnt, tab), LAMBDA e :
            Then(Repeat(e.t, n, e.tab), LAMBDA r :
            [t |-> r.t, cnt |-> e.cnt, tab |-> r.tab]))
      [] n.op \in {"not", "star", "plus", "opt"} ->
            Then(Build(n.kids[1], G, cnt, tab), LAMBDA e :
            Then(CASE n.op = "not" -> RegexNot(e.t, Kw(G), e.tab)
                   [] n.op = "star" -> RegexStar(e.t, Kw(G), e.tab)
                   [] n.op = "plus" -> RegexPlus(e.t, NoKw, e.tab)
                   [] OTHER -> RegexOpt(e.t, Kw(G), e.tab), LAMBDA r :
            [t |-> r.t, cnt |-> e.cnt, tab |-> r.tab]))
      [] OTHER ->
            Then(Build(n.kids[1], G, cnt, tab), LAMBDA l :
            Then(Build(n.kids[2], G, l.cnt, l.tab), LAMBDA r :
            Then(CASE n.op = "cat" -> RegexConcat(l.t, r.t, NoKw, r.tab)
                   [] n.op = "or" -> RegexOr(l.t, r.t, Kw(G), r.tab)
                   [] n.op = "and" -> RegexAnd(l.t, r.t, Kw(G), r.tab)
                   [] n.op = "diff" -> RegexDiff(l.t, r.t, Kw(G), r.tab)
                   [] OTHER -> RegexXor(l.t, r.t, Kw(G), r.tab), LAMBDA c :
            [t |-> c.t, cnt |-> r.cnt, tab |-> c.tab])))

\* The constructors called directly, as derive() and nullable() call them and
\* as a program building terms by hand does: n is the expression of nested
\* calls, evaluated arguments first and left to right; the leaves are built
\* without keywords and every other call gets the keywords kw.  Emp is
\* RegexEmpty(), and in such an expression Grp(x) is RegexExpr(x).
Emp == Node("empty", {}, FALSE, <<>>)

RECURSIVE Make(_, _, _)
Make(n, kw, tab) ==
    CASE n.op = "empty" -> RegexEmpty(NoKw, tab)
      [] n.op = "eps" -> RegexEpsilon(NoKw, tab)
      [] n.op = "dot" -> RegexDot(NoKw, tab)
      [] n.op = "sym" -> RegexSym(n.mask, n.neg, NoKw, tab)
      [] n.op \in {"not", "star", "plus", "opt", "grp"} ->
            Then(Make(n.kids[1], kw, tab), LAMBDA e :
            CASE n.op = "not" -> RegexNot(e.t, kw, e.tab)
              [] n.op = "star" -> RegexStar(e.t, kw, e.tab)
              [] n.op = "plus" -> RegexPlus(e.t, kw, e.tab)
              [] n.op = "opt" -> RegexOpt(e.t, kw, e.tab)
              [] OTHER -> RegexExpr(e.t, kw, e.tab))
      [] OTHER ->
            Then(Make(n.kids[1], kw, tab), LAMBDA l :
            Then(Make(n.kids[2], kw, l.tab), LAMBDA r :
            CASE n.op = "cat" -> RegexConcat(l.t, r.t, kw, r.tab)
              [] n.op = "or" -> RegexOr(l.t, r.t, kw, r.tab)
              [] n.op = "and" -> RegexAnd(l.t, r.t, kw, r.tab)
              [] n.op = "diff" -> RegexDiff(l.t, r.t, kw, r.tab)
              [] OTHER -> RegexXor(l.t, r.t, kw, r.tab)))

\* Parser().parse(pattern): a fresh lexer has groups = [0], group_count = 1.
parse(n, tab) == Build(n, {0}, 1, tab)

\* --------------------------------------------------------------- GroupInfo

\* A dict as a function; Del is `del d[k]` for the keys K.
EmptyMap == [g \in {} |-> 0]
Del(d, K) == [g \in (DOMAIN d) \ K |-> d[g]]

\* GroupInfo(): nothing active, nothing final.
NewGroupInfo == [active |-> EmptyMap, final |-> EmptyMap]

\* A faulty GroupInfo.step that starts groups but never ends one, leaving
\* every group open until close().
stepStartsOnly(gi, idx, group_set) ==
    [active |-> [g \in group_set \ DOMAIN gi.active |-> idx] @@ gi.active,
     final |-> gi.final]

\* GroupInfo.step(index, group_set).
step(gi, idx, group_set) ==
    LET started == group_set \ DOMAIN gi.active
        act1 == [g \in started |-> idx] @@ gi.active
        ended == (DOMAIN act1) \ group_set
    IN [active |-> Del(act1, ended),
        final |-> [g \in ended |-> <<act1[g], idx>>] @@ gi.final]

\* GroupInfo.close(end_index).
close(gi, end_index) ==
    [active |-> EmptyMap,
     final |-> [g \in DOMAIN gi.active |-> <<gi.active[g], end_index>>] @@ gi.final]

\* Goto.group: the union of the groups of the leaves behind a transition.
GotoGroup(g, tab) == UNION {tab[x].group : x \in g.states}

\* ----------------------------------------------------------- state machine

VARIABLES
    instance,      \* Regex._instance with each object's attributes
    goto,          \* the goto attribute of the terms compile has labelled
    state_number,  \* the number n of the label 'q<n>' compile gave a term
    scn,           \* what the caller does: kind, patterns, entry point
    job,           \* which call of the scenario is running
    pc,            \* where the running call is
    root,          \* the term handed to the running call
    string,        \* its input
    todo_list,     \* compile: the worklist
    dfa_states,    \* compile: the terms labelled so far
    current_state, \* compile: the term popped last
    classes,       \* compile: the masks of its charset still to process
    state,         \* the DFA state of the walk
    index,         \* the index of the next character of the walk
    offset,        \* search: where the running attempt started
    group_info,    \* the GroupInfo of the walk
    all_groups,    \* search(all=True): the accumulator
    results,       \* what the calls finished so far returned
    other          \* two threads: the local variables of the one not running

vars == <<instance, goto, state_number, scn, job, pc, root, string, todo_list,
          dfa_states, current_state, classes, state, index, offset, group_info,
          all_groups, results, other>>

compileVars == <<todo_list, dfa_states, current_state, classes>>
walkVars == <<state, index, offset, group_info, all_groups>>

NoTerm == Key("None", {}, FALSE, NoKw, {}, <<>>)

\* All input strings of length lo .. MaxLen.
Strings(lo) == UNION {[1 .. n -> Chars] : n \in lo .. MaxLen}

\* A faulty loop that ends with the classes of the first state it popped.
LoopPcFirstState(cl, todo) ==
    IF cl # {} THEN "classes" ELSE "run"

\* compile(): where the loops stand once a class, or a pop, is done.
LoopPc(cl, todo) ==
    IF cl # {} THEN "classes" ELSE IF todo # {} THEN "compile" ELSE "run"

\* parser.parse(pattern) for the pattern of the running call, and the
\* ValueError raised when the parser counted an error.
Parse ==
    /\ pc = "parse"
    /\ \E p \in {parse(scn.pats[job], instance)} :
          /\ root' = IF errors(scn.pats[job]) > 0 THEN NoTerm ELSE p.t
          /\ instance' = p.tab
    /\ pc' = IF errors(scn.pats[job]) > 0 THEN "raised" ELSE "call"
    /\ UNCHANGED <<goto, state_number, scn, other, job, string, compileVars, walkVars, results>>

\* The second call of a "derive" scenario is made on root.derive(c, set()),
\* c the first character of the first call's input.
Derive ==
    /\ pc = "derive"
    /\ \E d \in {derive(root, string[1], FALSE, instance)} :
          /\ root' = d.t
          /\ instance' = d.tab
    /\ pc' = "call"
    /\ UNCHANGED <<goto, state_number, scn, other, job, string, compileVars, walkVars, results>>

\* One expression of constructor calls is evaluated; what it returns is
\* kept next to what the expressions before it returned.
Construct ==
    /\ pc = "build"
    /\ \E r \in {Make(scn.pats[job], scn.kw, instance)} :
          /\ instance' = r.tab
          /\ results' = Append(results, r.t)
    /\ pc' = IF job = Len(scn.pats) THEN "done" ELSE "build"
    /\ job' = job + 1
    /\ UNCHANGED <<goto, state_number, scn, other, root, string, compileVars, walkVars>>

\* compile(expr) up to its loop: the dead state and the worklist.
CompileInit ==
    /\ pc = "call"
    /\ instance' = RegexEmpty(NoKw, instance).tab
    /\ todo_list' = {root}
    /\ dfa_states' = {}
    /\ pc' = "compile"
    /\ UNCHANGED <<goto, state_number, scn, other, job, root, string, current_state, classes,
                   walkVars, results>>

\* A faulty pass that takes a state with a label for one whose classes are
\* done, and goes on to the next state of the worklist.
CompilePopSkipLabelled ==
    /\ pc = "compile"
    /\ Cardinality(dfa_states) < MaxStates
    /\ \E s \in todo_list :
          \E default_goto \in {[next |-> RegexEmpty(NoKw, instance).t, states |-> {}]} :
             /\ current_state' = s
             /\ todo_list' = todo_list \ {s}
             /\ state_number' = (s :> Cardinality(dfa_states)) @@ state_number
             /\ dfa_states' = dfa_states \cup {s}
             /\ goto' = (s :> [c \in Chars |-> default_goto]) @@ goto
             /\ classes' = IF s \in DOMAIN state_number THEN {} ELSE instance[s].charset \ {{}}
             /\ pc' = LoopPc(classes', todo_list')
    /\ UNCHANGED <<instance, scn, other, job, root, string, walkVars, results>>

\* A faulty pass whose pop empties the worklist, so that the states left
\* in it are labelled or not depending on which one was handed out.
CompilePopDropsRest ==
    /\ pc = "compile"
    /\ Cardinality(dfa_states) < MaxStates
    /\ \E s \in todo_list :
          \E default_goto \in {[next |-> RegexEmpty(NoKw, instance).t, states |-> {}]} :
             /\ current_state' = s
             /\ todo_list' = {}
             /\ state_number' = (s :> Cardinality(dfa_states)) @@ state_number
             /\ dfa_states' = dfa_states \cup {s}
             /\ goto' = (s :> [c \in Chars |-> default_goto]) @@ goto
             /\ classes' = instance[s].charset \ {{}}
             /\ pc' = LoopPc(classes', todo_list')
    /\ UNCHANGED <<instance, scn, other, job, root, string, walkVars, results>>

\* One pass of `while todo_list` up to the loop over the classes:
\* set.pop() hands out any element.
CompilePop ==
    /\ pc = "compile"
    /\ Cardinality(dfa_states) < MaxStates
    /\ \E s \in todo_list :
          \E default_goto \in {[next |-> RegexEmpty(NoKw, instance).t, states |-> {}]} :
             /\ current_state' = s
             /\ todo_list' = todo_list \ {s}
             /\ state_number' = (s :> Cardinality(dfa_states)) @@ state_number
             /\ dfa_states' = dfa_states \cup {s}
             /\ goto' = (s :> [c \in Chars |-> default_goto]) @@ goto
             /\ classes' = instance[s].charset \ {{}}
             /\ pc' = LoopPc(classes', todo_list')
    /\ UNCHANGED <<instance, scn, other, job, root, string, walkVars, results>>

\* One pass of `for charset in classes` (a set of masks, so in any order):
\* the derivative by the lowest character of the mask becomes the
\* transition of every character of the mask.
CompileClass ==
    /\ pc = "classes"
    /\ \E m \in classes : \E d \in {derive(current_state, Min(m), FALSE, instance)} :
          /\ instance' = d.tab
          /\ goto' = [goto EXCEPT ![current_state] =
                         [c \in Chars |-> IF c \in m THEN [next |-> d.t, states |-> d.st]
                                                     ELSE @[c]]]
          /\ todo_list' = IF d.t \notin dfa_states THEN todo_list \cup {d.t} ELSE todo_list
          /\ classes' = classes \ {m}
          /\ pc' = LoopPc(classes', todo_list')
    /\ UNCHANGED <<state_number, scn, other, job, root, string, dfa_states, current_state,
                   walkVars, results>>

\* The input of the second call of a scenario follows from the first's.
Inputs ==
    IF job = 1
    THEN Strings(IF scn.kind = "derive" THEN 1 ELSE 0)
    ELSE IF scn.kind = "derive" THEN {Tail(string)} ELSE {string}

\* What follows the return of a call.
AfterPc ==
    IF scn.kind = "threads" THEN (IF job = 1 THEN "spawn" ELSE "done")
    ELSE IF scn.kind = "recompile" THEN (IF job = 1 THEN "call" ELSE "done")
    ELSE IF job = Len(scn.pats) THEN "done"
    ELSE IF scn.kind = "derive" THEN "derive" ELSE "parse"

\* compile(expr) called for its own sake returns the pattern it was given,
\* with the tables the loop has left on the states.
CompileReturn ==
    /\ pc = "run" /\ scn.mode = "compile"
    /\ results' = Append(results, [root |-> root, goto |-> goto])
    /\ pc' = AfterPc
    /\ job' = job + 1
    /\ UNCHANGED <<instance, goto, state_number, scn, other, root, string, compileVars,
                   walkVars>>

\* match(expr, string) after compile: the start of the walk.
MatchBegin ==
    /\ pc = "run" /\ scn.mode = "match"
    /\ \E s \in Inputs : string' = s
    /\ state' = root
    /\ index' = 0
    /\ group_info' = NewGroupInfo
    /\ pc' = "match"
    /\ UNCHANGED <<instance, goto, state_number, scn, other, job, root, compileVars, offset,
                   all_groups, results>>

\* One pass of match's loop over dfa_run: a dead state returns {}.
MatchStep ==
    /\ pc = "match"
    /\ index < Len(string)
    /\ \E g \in {goto[state][string[index + 1]]} :
          /\ state' = g.next
          /\ IF isempty(g.next)
             THEN /\ results' = Append(results, EmptyMap)
                  /\ pc' = AfterPc
                  /\ job' = job + 1
                  /\ UNCHANGED <<group_info, index>>
             ELSE /\ group_info' = step(group_info, index, GotoGroup(g, instance))
                  /\ index' = index + 1
                  /\ UNCHANGED <<results, pc, job>>
    /\ UNCHANGED <<instance, goto, state_number, scn, other, root, string, compileVars, offset,
                   all_groups>>

\* match after its loop: accepting state, close(), group 0.
MatchEnd ==
    /\ pc = "match"
    /\ index = Len(string)
    /\ \E n \in {nullable(state, instance)} :
          /\ instance' = n.tab
          /\ IF ~isepsilon(n.t)
             THEN /\ results' = Append(results, EmptyMap)
                  /\ UNCHANGED group_info
             ELSE \E gi \in {close(group_info, Len(string))} :
                     /\ group_info' =
                            IF 0 \notin DOMAIN gi.final
                            THEN [gi EXCEPT !.final = (0 :> <<0, Len(string)>>) @@ @]
                            ELSE gi
                     /\ results' = Append(results, group_info'.final)
    /\ pc' = AfterPc
    /\ job' = job + 1
    /\ UNCHANGED <<goto, state_number, scn, other, root, string, compileVars, state, index,
                   offset, all_groups>>

\* search(expr, string, all=...) after compile: offset = 0, no match yet.
SearchBegin ==
    /\ pc = "run" /\ scn.mode \in {"search", "searchall"}
    /\ \E s \in Inputs : string' = s
    /\ offset' = 0
    /\ all_groups' = EmptyMap
    /\ pc' = "search"
    /\ UNCHANGED <<instance, goto, state_number, scn, other, job, root, compileVars, state,
                   index, group_info, results>>

\* The head of `while offset < n`: a new attempt from offset, or the return
\* once the offsets are used up.
SearchAttempt ==
    /\ pc = "search"
    /\ IF offset < Len(string)
       THEN /\ state' = root
            /\ group_info' = NewGroupInfo
            /\ index' = offset
            /\ pc' = "scan"
            /\ UNCHANGED <<results, job>>
       ELSE /\ results' = Append(results, IF scn.mode = "searchall" THEN all_groups
                                                                   ELSE EmptyMap)
            /\ pc' = AfterPc
            /\ job' = job + 1
            /\ UNCHANGED <<state, group_info, index>>
    /\ UNCHANGED <<instance, goto, state_number, scn, other, root, string, compileVars, offset,
                   all_groups>>

\* A faulty merge that puts the span of a match in front of the earlier ones.
MergeInFront(acc, final) ==
    [g \in DOMAIN acc \cup DOMAIN final |->
        IF g \notin DOMAIN final THEN acc[g]
        ELSE IF g \in DOMAIN acc THEN <<final[g]>> \o acc[g]
        ELSE <<final[g]>>]

\* all_groups.setdefault(g, []).append(span) for every group of a match.
Merge(acc, final) ==
    [g \in DOMAIN acc \cup DOMAIN final |->
        IF g \notin DOMAIN final THEN acc[g]
        ELSE IF g \in DOMAIN acc THEN Append(acc[g], final[g])
        ELSE <<final[g]>>]

\* A faulty restart that tries again from the character that ended the
\* attempt.
RestartAtSame(i) == i

\* Where the next attempt starts when the step at index i ended this one:
\* offset = step.index + 1, which is also end_index after a match.
RestartAt(i) == i + 1

\* One pass of the loop over dfa_run inside an attempt.  A dead state ends
\* the attempt and moves offset behind the character that killed it; the
\* first accepting state ends it with a match; running out of input ends the
\* whole search.
SearchStep ==
    /\ pc = "scan"
    /\ IF index < Len(string)
       THEN \E g \in {goto[state][string[index + 1]]} :
               /\ state' = g.next
               /\ IF isempty(g.next)
                  THEN /\ offset' = RestartAt(index)
                       /\ pc' = "search"
                       /\ UNCHANGED <<instance, group_info, index, all_groups, results, job>>
                  ELSE \E gi \in {step(group_info, index, GotoGroup(g, instance))} :
                       \E n \in {nullable(g.next, instance)} :
                          /\ instance' = n.tab
                          /\ IF ~isepsilon(n.t)
                             THEN /\ group_info' = gi
                                  /\ index' = index + 1
                                  /\ UNCHANGED <<offset, pc, all_groups, results, job>>
                             ELSE /\ group_info' = close(gi, index + 1)
                                  /\ UNCHANGED index
                                  /\ IF scn.mode = "searchall"
                                     THEN /\ all_groups' = Merge(all_groups, group_info'.final)
                                          /\ offset' = RestartAt(index)
                                          /\ pc' = "search"
                                          /\ UNCHANGED <<results, job>>
                                     ELSE /\ results' = Append(results, group_info'.final)
                                          /\ pc' = AfterPc
                                          /\ job' = job + 1
                                          /\ UNCHANGED <<offset, all_groups>>
       ELSE /\ results' = Append(results, IF scn.mode = "searchall" THEN all_groups
                                                                   ELSE EmptyMap)
            /\ pc' = AfterPc
            /\ job' = job + 1
            /\ UNCHANGED <<instance, state, group_info, index, offset, all_groups>>
    /\ UNCHANGED <<goto, state_number, scn, other, root, string, compileVars>>

\* ---------------------------------------------------------------- threads

\* What a thread keeps to itself: its position and the local variables of
\* the call it runs.  Regex._instance, and the goto and state_number
\* attributes of the Regex objects, are shared by all threads.
Registers ==
    [job |-> job, pc |-> pc, root |-> root, string |-> string, todo_list |-> todo_list,
     dfa_states |-> dfa_states, current_state |-> current_state, classes |-> classes,
     state |-> state, index |-> index, offset |-> offset, group_info |-> group_info,
     all_groups |-> all_groups, results |-> results]

\* No second thread.
NoThread ==
    [job |-> 0, pc |-> "none", root |-> NoTerm, string |-> <<>>, todo_list |-> {},
     dfa_states |-> {}, current_state |-> NoTerm, classes |-> {}, state |-> NoTerm,
     index |-> 0, offset |-> 0, group_info |-> NewGroupInfo, all_groups |-> EmptyMap,
     results |-> <<>>]

\* Two threads are started on the pattern the first call compiled, each to
\* make the same call on the same input again.
Spawn ==
    /\ pc = "spawn"
    /\ pc' = "call"
    /\ other' = [Registers EXCEPT !.pc = "call"]
    /\ UNCHANGED <<instance, goto, state_number, scn, job, root, string, compileVars,
                   walkVars, results>>

\* The interpreter hands the processor to the other thread: between any two
\* steps of the running one, while the other has steps left.
Switch ==
    /\ other.pc \notin {"none", "done"}
    /\ other' = Registers
    /\ job' = other.job
    /\ pc' = other.pc
    /\ root' = other.root
    /\ string' = other.string
    /\ todo_list' = other.todo_list
    /\ dfa_states' = other.dfa_states
    /\ current_state' = other.current_state
    /\ classes' = other.classes
    /\ state' = other.state
    /\ index' = other.index
    /\ offset' = other.offset
    /\ group_info' = other.group_info
    /\ all_groups' = other.all_groups
    /\ results' = other.results
    /\ UNCHANGED <<instance, goto, state_number, scn>>

\* ------------------------------------------------------------- scenarios

a == Lit(1)
b == Lit(2)

\* What a caller does: "single" is one call on one pattern; "pair" is the
\* same call on two patterns, parsed one after the other into the same
\* Regex._instance, with the same input; "derive" is match(r, c.t) followed
\* by match(r.derive(c), t); "recompile" is compile called on what compile
\* returned.  mode is the entry point called.
Scenario(kind, mode, pats) == [kind |-> kind, mode |-> mode, pats |-> pats]

\* The patterns below are trees the grammar of parser.py can produce: the
\* operand of a postfix operator is a primary (a literal or a group), the
\* right operand of a concatenation is a primary, '~' binds tighter than
\* '&', and '&' tighter than '|', '^' and '-', which associate to the left.
Atoms == {a, b, Dot, Eps}

Postfix(S) == {Star(x) : x \in S} \cup {Plus(x) : x \in S} \cup {Opt(x) : x \in S}
Binary(L, R) ==
    {Or(x, y) : x \in L, y \in R} \cup {And(x, y) : x \in L, y \in R}
    \cup {Diff(x, y) : x \in L, y \in R} \cup {Xor(x, y) : x \in L, y \in R}

\* Every pattern with one operator over the atoms.
Small ==
    Atoms \cup Postfix(Atoms) \cup {Not(x) : x \in Atoms} \cup {Grp(x) : x \in Atoms}
    \cup {Cat(x, y) : x \in Atoms, y \in Atoms} \cup Binary(Atoms, Atoms)

\* Patterns with two and more operators: groups under repetition, groups in
\* alternatives, complement and difference over longer words, a class.
Larger ==
    {Star(Grp(a)), Plus(Grp(a)), Star(Grp(Cat(a, b))), Plus(Grp(Cat(a, b))),
     Cat(Grp(a), Grp(b)), Grp(Cat(Grp(a), b)), Cat(Grp(Or(a, b)), a),
     Cat(Star(a), b), Cat(Cat(a, Star(b)), a), Cat(Plus(a), Opt(b)),
     Or(Cat(a, b), a), Or(Cat(Grp(a), b), Cat(a, a)), Or(Or(Grp(a), a), b),
     Not(Cat(a, b)), Not(Star(a)), Not(Grp(Or(a, b))), And(Not(a), Not(b)),
     Diff(Star(Dot), a), Diff(Star(Dot), Cat(a, b)), Diff(Or(a, Cat(a, b)), a),
     And(Grp(a), a), And(Cat(Dot, a), Cat(a, Dot)), And(Star(Grp(Or(a, b))), Star(a)),
     Cat(Cat(Star(Dot), a), Star(Dot)), Cat(Cls({1}, TRUE), b), Star(Grp(Or(Grp(a), b))),
     Xor(Xor(a, b), a), Xor(Grp(Or(a, b)), a), Xor(Star(a), a)}

MatchPats == Small \cup Larger

\* Operands for the boolean laws: literals, words, repetitions, groups.
LawTerms == {a, b, Cat(a, b), Star(a), Grp(a)}

XorPats ==
    {Xor(x, y) : x \in LawTerms, y \in LawTerms}
    \cup {Xor(Xor(x, y), z) : x \in {a, b}, y \in {a, b}, z \in {a, b}}
    \cup {Xor(x, Grp(Xor(y, z))) : x \in {a, b}, y \in {a, b}, z \in {a, b}}

DeMorganPairs == {<<Not(Grp(Or(x, y))), And(Not(x), Not(y))>> : x \in LawTerms, y \in LawTerms}

\* Concatenations of literals and groups, over the literals L, by number of
\* literals n and nesting depth d: a primary is a literal or a parenthesised
\* expression, an expression a primary or an expression followed by a
\* primary.
RECURSIVE GroupExprs(_, _, _)
GroupPrims(L, n, d) ==
    (IF n = 1 THEN L ELSE {})
    \cup (IF d > 0 THEN {Grp(e) : e \in GroupExprs(L, n, d - 1)} ELSE {})
GroupExprs(L, n, d) ==
    GroupPrims(L, n, d)
    \cup UNION {{Cat(x, y) : x \in GroupExprs(L, k, d), y \in GroupPrims(L, n - k, d)} :
                 k \in 1 .. (n - 1)}

\* Every such pattern over one literal with groups nested up to twice, as
\* in ((a)a), and over two literals, with one literal less, without nesting.
GroupPats ==
    UNION {GroupExprs({a}, n, 2) : n \in 1 .. MaxLits}
    \cup UNION {GroupExprs({a, b}, n, 1) : n \in 1 .. (MaxLits - 1)}

GroupScenarios == {Scenario("single", "match", <<p>>) : p \in GroupPats}

\* match(r, c.t) against match(r.derive(c), t).
DeriveScenarios == {Scenario("derive", "match", <<p, p>>) : p \in MatchPats}

\* One match call per pattern, and the two sides of De Morgan's law.
MatchScenarios ==
    {Scenario("single", "match", <<p>>) : p \in MatchPats \cup XorPats}
    \cup {Scenario("pair", "match", pp) : pp \in DeMorganPairs}

SearchPats ==
    Small \cup Larger

SearchScenarios ==
    {Scenario("single", m, <<p>>) : p \in SearchPats, m \in {"search", "searchall"}}

\* The patterns without complement, difference, symmetric difference and
\* intersection.
RECURSIVE IsPlain(_)
IsPlain(n) ==
    /\ n.op \in {"sym", "dot", "eps", "cat", "or", "star", "plus", "opt", "grp"}
    /\ \A i \in 1 .. Len(n.kids) : IsPlain(n.kids[i])

PlainSearchScenarios == {S \in SearchScenarios : IsPlain(S.pats[1])}

InitWith(S) ==
    /\ scn \in S
    /\ instance = EmptyMap
    /\ goto = EmptyMap
    /\ state_number = EmptyMap
    /\ job = 1
    /\ pc = (IF scn.mode = "build" THEN "build" ELSE "parse")
    /\ root = NoTerm
    /\ string = <<>>
    /\ todo_list = {}
    /\ dfa_states = {}
    /\ current_state = NoTerm
    /\ classes = {}
    /\ state = NoTerm
    /\ index = 0
    /\ offset = 0
    /\ group_info = NewGroupInfo
    /\ all_groups = EmptyMap
    /\ results = <<>>
    /\ other = NoThread

Init == InitWith(DeriveScenarios)

Next ==
    \/ Parse
    \/ Derive
    \/ CompileInit
    \/ CompilePop
    \/ CompileClass
    \/ MatchBegin
    \/ MatchStep
    \/ MatchEnd

Spec == Init /\ [][Next]_vars

InitMatch == InitWith(MatchScenarios)

NextMatch ==
    \/ Parse
    \/ CompileInit
    \/ CompilePop
    \/ CompileClass
    \/ MatchBegin
    \/ MatchStep
    \/ MatchEnd

SpecMatch == InitMatch /\ [][NextMatch]_vars

InitGroups == InitWith(GroupScenarios)

SpecGroups == InitGroups /\ [][NextMatch]_vars

InitSearch == InitWith(SearchScenarios)

NextSearch ==
    \/ Parse
    \/ CompileInit
    \/ CompilePop
    \/ CompileClass
    \/ SearchBegin
    \/ SearchAttempt
    \/ SearchStep

SpecSearch == InitSearch /\ [][NextSearch]_vars

InitSearchPlain == InitWith(PlainSearchScenarios)

SpecSearchPlain == InitSearchPlain /\ [][NextSearch]_vars

\* Terms r for r - r: an operand of '-' that is repeated in the pattern
\* text is a concatenation, a '~' or an '&' expression.  Those without
\* parentheses parse to one object twice; a parenthesis gets a new group
\* number each time it is read, so the copies differ in their leaves.
DiffTerms ==
    {a, Cat(a, b), Star(a), Not(a), And(a, Dot),
     Grp(a), Grp(Eps), Grp(Grp(a)), Cat(Grp(a), b), Cat(a, Grp(b)), Cat(Grp(a), Grp(b)),
     Star(Grp(a)), Plus(Grp(Cat(a, b))), Opt(Grp(a)), Grp(Star(a)), Grp(Or(a, b)),
     Grp(Or(Cat(a, b), a)), Grp(Diff(Star(Dot), a)), Grp(Xor(a, b)), Not(Grp(a)),
     And(Grp(a), a), Star(Grp(Or(Grp(a), b))), Cat(Opt(Grp(a)), Star(Grp(b)))}

DiffScenarios == {Scenario("single", "match", <<Diff(r, r)>>) : r \in DiffTerms}

\* The largest count written in a counted repetition.
MaxRep == 3

\* What the counted repetitions are applied to: a literal, the dot, groups.
RepeatOperands == {a, Dot, Grp(a), Grp(Cat(a, b)), Grp(Or(a, b))}

\* x* and x{0,}, x+ and x{1,}, x? and x{0,1}.
QuantifierPairs ==
    {<<Star(x), Rep(x, 0, None)>> : x \in RepeatOperands}
    \cup {<<Plus(x), Rep(x, 1, None)>> : x \in RepeatOperands}
    \cup {<<Opt(x), Rep(x, 0, 1)>> : x \in RepeatOperands}

\* x{n}, x{m,n}, x{m,} and x{,n} for 0 <= m <= n <= MaxRep.
RepeatPats ==
    {RepN(x, n) : x \in RepeatOperands, n \in 0 .. MaxRep}
    \cup {Rep(x, mn[1], mn[2]) : x \in RepeatOperands,
                                 mn \in {y \in (0 .. MaxRep) \X (0 .. MaxRep) : y[1] <= y[2]}}
    \cup {Rep(x, m, None) : x \in RepeatOperands, m \in 0 .. MaxRep}
    \cup {Rep(x, None, n) : x \in RepeatOperands, n \in 0 .. MaxRep}

RepeatScenarios ==
    {Scenario("pair", "match", pp) : pp \in QuantifierPairs}
    \cup {Scenario("single", "match", <<p>>) : p \in RepeatPats}

InitAlgebra == InitWith(DiffScenarios \cup RepeatScenarios)

SpecAlgebra == InitAlgebra /\ [][NextMatch]_vars

\* The three entry points on the same patterns: match, search and
\* search(all=True).
CallScenarios ==
    {Scenario("single", m, <<p>>) : p \in Larger, m \in {"match", "search", "searchall"}}

InitCalls == InitWith(CallScenarios)

NextCalls == NextMatch \/ NextSearch

SpecCalls == InitCalls /\ [][NextCalls]_vars

\* Patterns for the worklist loop: those of Larger, and repetitions of a
\* parenthesised symmetric difference.
LoopPats ==
    Larger \cup {Star(Grp(Xor(a, b))), Star(Grp(Xor(a, a))), Plus(Grp(Xor(a, Star(b)))),
                 Star(Grp(Xor(Dot, Dot))), Star(Grp(Xor(Dot, a)))}

LoopScenarios == {Scenario("single", "match", <<p>>) : p \in LoopPats}

InitLoop == InitWith(LoopScenarios)

SpecLoop == InitLoop /\ [][NextMatch]_vars

\* Pattern texts with a fault of each kind: a line feed in 'ab', a letter in
\* the braces of a{2}, the classes [z-a] and [^z-a], alone and after a
\* literal, and texts that stop being a pattern after a, ab and (a).
ErrorPats ==
    {Illegal(Cat(a, b)), Illegal(RepN(a, 2)), BadRange(FALSE), BadRange(TRUE),
     Cat(a, BadRange(FALSE)), Syntax(a), Syntax(Cat(a, b)), Syntax(Grp(a))}

\* Concatenations whose left operand has a nullable() that is neither
\* Epsilon nor Empty: (a*^a*)b, (a?){2}b, (a^a)(a).
TablePats ==
    {Cat(Grp(Xor(Star(a), Star(a))), b), Cat(RepN(Grp(Opt(a)), 2), b),
     Cat(Grp(Xor(a, a)), Grp(a))}

\* compile on its own: once on every pattern, faulty or not, then twice on
\* the same text, and on the pattern it returned.
CompileScenarios ==
    {Scenario("single", "compile", <<p>>) : p \in Larger \cup ErrorPats \cup TablePats}
    \cup {Scenario("pair", "compile", <<p, p>>) : p \in Larger \cup GroupPats}
    \cup {Scenario("recompile", "compile", <<p>>) : p \in MatchPats \cup XorPats \cup RepeatPats}

InitCompile == InitWith(CompileScenarios)

NextCompile ==
    \/ Parse
    \/ CompileInit
    \/ CompilePop
    \/ CompileClass
    \/ CompileReturn

SpecCompile == InitCompile /\ [][NextCompile]_vars

\* Expressions of constructor calls, one after the other on the same
\* Regex._instance, each call with the keywords kw.
Calls(pats, kw) == [kind |-> "calls", mode |-> "build", pats |-> pats, kw |-> kw]

\* Operands of the laws of the term algebra: the leaves, Empty and its
\* complement, a term in and out of its Expr wrapper, a star, an
\* alternative.
LawOperands == {a, b, Eps, Emp, Not(Emp), Grp(a), Grp(b), Star(a), Or(a, b)}

\* The keywords of a call: none, or the group stack of a token.
LawKw == {NoKw, Kw({0, 1})}

\* Or(Or(x, y), z) and Or(x, Or(y, z)), in both orders of building.
OrScenarios ==
    UNION {{Calls(<<Or(Or(x, y), z), Or(x, Or(y, z))>>, kw),
            Calls(<<Or(x, Or(y, z)), Or(Or(x, y), z)>>, kw)} :
           x \in LawOperands, y \in LawOperands, z \in LawOperands, kw \in LawKw}

\* Operands of the nested differences and symmetric differences.
NestOperands == {a, b, Dot, Star(a), Or(a, b), Cat(a, b)}

\* x - (y - z) against (x - y) - z, and x ^ (x ^ y) against x ^ y, in both
\* orders of building.
NestScenarios ==
    UNION {{Calls(<<Diff(x, Diff(y, z)), Diff(Diff(x, y), z)>>, kw),
            Calls(<<Diff(Diff(x, y), z), Diff(x, Diff(y, z))>>, kw),
            Calls(<<Xor(x, Xor(x, y)), Xor(x, y)>>, kw),
            Calls(<<Xor(x, y), Xor(x, Xor(x, y))>>, kw)} :
           x \in NestOperands, y \in NestOperands, z \in NestOperands, kw \in LawKw}

TermScenarios == OrScenarios \cup NestScenarios

InitTerms == InitWith(TermScenarios)

NextTerms == Construct

SpecTerms == InitTerms /\ [][NextTerms]_vars

\* Two threads on one compiled pattern: "threads" is one call alone, then
\* the same call on the same input from each of two threads.
ThreadPats == {Cat(a, b), Star(Grp(a)), Cat(Grp(a), Grp(b))}

ThreadScenarios ==
    {Scenario("threads", m, <<p>>) : p \in ThreadPats, m \in {"match", "search"}}

InitThreads == InitWith(ThreadScenarios)

NextThreads ==
    \/ NextCalls
    \/ Spawn
    \/ Switch

SpecThreads == InitThreads /\ [][NextThreads]_vars

\* ---------------------------------------------------- reference semantics

\* The language of a pattern, read off its syntax tree: Accepts(n, s) holds
\* iff the string s belongs to the language the pattern n denotes.
RECURSIVE Accepts(_, _)

\* s is a concatenation of k strings of the language of n.
RECURSIVE Power(_, _, _)
Power(n, k, s) ==
    IF k = 0 THEN Len(s) = 0
    ELSE \E j \in 0 .. Len(s) :
            Accepts(n, SubSeq(s, 1, j)) /\ Power(n, k - 1, SubSeq(s, j + 1, Len(s)))

\* The numbers of copies a counted repetition allows, as far as they matter
\* for a string of length len (more than len copies add empty ones only).
Counts(n, len) ==
    IF n.op = "repn" THEN {n.lo}
    ELSE LET lo == IF n.lo = None THEN 0 ELSE n.lo
         IN lo .. (IF n.hi # None THEN n.hi ELSE IF len > lo THEN len ELSE lo)

Accepts(n, s) ==
    LET k1 == n.kids[1]
        k2 == n.kids[2]
        Split(x, y, lo) ==
            \E k \in lo .. Len(s) :
                Accepts(x, SubSeq(s, 1, k)) /\ Accepts(y, SubSeq(s, k + 1, Len(s)))
    IN CASE n.op = "sym"  -> Len(s) = 1 /\ ((s[1] \in n.mask) # n.neg)
         [] n.op = "dot"  -> Len(s) = 1
         [] n.op = "eps"  -> Len(s) = 0
         [] n.op = "cat"  -> Split(k1, k2, 0)
         [] n.op = "or"   -> Accepts(k1, s) \/ Accepts(k2, s)
         [] n.op = "and"  -> Accepts(k1, s) /\ Accepts(k2, s)
         [] n.op = "diff" -> Accepts(k1, s) /\ ~Accepts(k2, s)
         [] n.op = "xor"  -> Accepts(k1, s) # Accepts(k2, s)
         [] n.op = "not"  -> ~Accepts(k1, s)
         [] n.op = "star" -> Len(s) = 0 \/ Split(k1, n, 1)
         [] n.op = "plus" -> Accepts(k1, s) \/ Split(k1, n, 1)
         [] n.op = "opt"  -> Len(s) = 0 \/ Accepts(k1, s)
         [] n.op = "grp"  -> Accepts(k1, s)
         [] n.op \in {"repn", "rep"} -> \E k \in Counts(n, Len(s)) : Power(k1, k, s)

\* ------------------------------------------------------------------ claims

\* What call i of the scenario returned is a match.
Matched(i) == DOMAIN results[i] # {}

C2_GroupZeroIsWholeMatch ==
    (pc = "done" /\ scn.kind = "single" /\ scn.mode = "match" /\ Matched(1))
        => (0 \in DOMAIN results[1] /\ results[1][0] = <<0, Len(string)>>)

\* A word: a concatenation of literal characters.
RECURSIVE IsWord(_)
IsWord(n) ==
    \/ n.op = "sym"
    \/ n.op = "cat" /\ IsWord(n.kids[1]) /\ n.kids[2].op = "sym"

\* The number of characters a word, or a concatenation of groups of words,
\* consumes.
RECURSIVE Width(_)
Width(n) ==
    CASE n.op \in {"sym", "dot"} -> 1
      [] n.op = "cat" -> Width(n.kids[1]) + Width(n.kids[2])
      [] n.op = "grp" -> Width(n.kids[1])
      [] OTHER -> 0

\* Where the groups of a concatenation of literals and groups must lie:
\* groups are numbered by their opening parenthesis from gid on, and the
\* text of the pattern starts at position pos of the input.
RECURSIVE Spans(_, _, _)
Spans(n, gid, pos) ==
    CASE n.op = "cat" ->
            LET l == Spans(n.kids[1], gid, pos)
                r == Spans(n.kids[2], l.gid, l.pos)
            IN [map |-> l.map @@ r.map, gid |-> r.gid, pos |-> r.pos]
      [] n.op = "grp" ->
            LET e == Spans(n.kids[1], gid + 1, pos)
            IN [map |-> (gid :> <<pos, e.pos>>) @@ e.map, gid |-> e.gid, pos |-> e.pos]
      [] OTHER -> [map |-> EmptyMap, gid |-> gid, pos |-> pos + 1]

ExpectedSpans(p) == (0 :> <<0, Width(p)>>) @@ Spans(p, 1, 0).map

\* C3: sequential and nested groups of literals.  For a pattern built from
\* literals by concatenation and parentheses, a successful match reports
\* every group, numbered by its opening parenthesis, with exactly the span
\* of the input its text covers, and group 0 with the whole input.
C3_GroupSpansOfLiterals ==
    (pc = "done" /\ scn.kind = "single" /\ scn.mode = "match"
     /\ scn.pats[1] \in GroupPats /\ Matched(1))
        => results[1] = ExpectedSpans(scn.pats[1])

\* A match of a pattern with a group nested in a group that is followed by
\* a further literal or group: three different spans.
C3_Witness ==
    /\ pc = "done" /\ scn.pats[1] \in GroupPats /\ Matched(1)
    /\ {1, 2} \subseteq DOMAIN results[1]
    /\ results[1][1][1] = results[1][2][1]
    /\ results[1][2][2] < results[1][1][2]
    /\ results[1][1][2] < results[1][0][2]

\* C4: a group under a repetition keeps its last iteration.  For a pattern
\* (w)* or (w)+ with w a word of u characters, a match of k >= 2 iterations
\* reports group 1 with the span ((k-1)u, ku) of the last one; a match of no
\* iteration does not report group 1 at all.
C4_RepeatedGroupKeepsLastIteration ==
    LET p == scn.pats[1]
        u == Width(p.kids[1])
        k == Len(string) \div u
    IN (/\ pc = "done" /\ scn.kind = "single" /\ scn.mode = "match"
        /\ p.op \in {"star", "plus"} /\ p.kids[1].op = "grp" /\ IsWord(p.kids[1].kids[1])
        /\ Matched(1))
           => /\ k = 0 => 1 \notin DOMAIN results[1]
              /\ k >= 2 => (/\ 1 \in DOMAIN results[1]
                            /\ results[1][1] = <<(k - 1) * u, k * u>>)

\* The pattern r accepts the piece s[i:j] of the input s.
AcceptsPiece(r, s, i, j) == Accepts(r, SubSeq(s, i + 1, j))

\* C5: search tries every start offset.  When the attempt that started at
\* offset off ends without a match, the next attempt starts at off + 1; so
\* search(r, s) returns a non-empty mapping whenever r accepts a non-empty
\* prefix of s[i:] for some offset i.
C5_SearchTriesEveryOffset ==
    /\ [][(scn.mode = "search" /\ pc = "scan" /\ pc' = "search")
              => offset' = offset + 1]_vars
    /\ [](pc = "done" /\ scn.mode = "search"
           /\ (\E i \in 0 .. (Len(string) - 1) : \E j \in (i + 1) .. Len(string) :
                   AcceptsPiece(scn.pats[1], string, i, j))
           => Matched(1))

\* The spans of a list are disjoint and in increasing order.
Disjoint(spans) ==
    \A k \in 1 .. (Len(spans) - 1) : spans[k][2] <= spans[k + 1][1]

\* C6: non-overlapping search.  In search with all=True the spans of group
\* 0 are collected in scan order and every two consecutive ones (s1, e1),
\* (s2, e2) satisfy e1 <= s2, in the accumulator at every moment and in the
\* mapping returned.
C6_SearchAllNonOverlapping ==
    scn.mode = "searchall"
        => /\ 0 \in DOMAIN all_groups => Disjoint(all_groups[0])
           /\ (pc = "done" /\ 0 \in DOMAIN results[1]) => Disjoint(results[1][0])

\* A search that found two matches or more.
C6_Witness ==
    /\ pc = "done" /\ scn.mode = "searchall"
    /\ 0 \in DOMAIN results[1]
    /\ Len(results[1][0]) >= 2

\* C7: the result of search signals a found match.  When the attempt that
\* started at offset reaches a nullable state after the character at index,
\* the mapping returned is non-empty and holds group 0 with the span
\* (offset, index + 1).
C7_SearchResultSignalsMatch ==
    [][(/\ scn.mode = "search" /\ pc = "scan" /\ pc' = "done"
        /\ index < Len(string)
        /\ isepsilon(nullable(state', instance').t))
           => (/\ 0 \in DOMAIN results'[1]
               /\ results'[1][0] = <<offset, index + 1>>)]_vars

\* C8: greedy is the default.  The match search reports from the offset of
\* its attempt is the longest prefix of s[offset:] that r accepts: it is
\* accepted, and no longer prefix is.
C8_GreedyLongestPrefix ==
    (pc = "done" /\ scn.mode = "search" /\ Matched(1) /\ 0 \in DOMAIN results[1])
        => LET end == results[1][0][2]
           IN /\ AcceptsPiece(scn.pats[1], string, offset, end)
              /\ \A j \in (end + 1) .. Len(string) :
                     ~AcceptsPiece(scn.pats[1], string, offset, j)

\* C9: '^' is the symmetric difference.  match(l ^ r, s) succeeds exactly
\* when one of l and r accepts s and the other does not, also when l or r
\* is itself a '^' (a^b^a accepts what b accepts).
C9_XorIsSymmetricDifference ==
    LET p == scn.pats[1]
    IN (pc = "done" /\ scn.kind = "single" /\ scn.mode = "match" /\ p.op = "xor")
           => (Matched(1) <=> (Accepts(p.kids[1], string) # Accepts(p.kids[2], string)))

\* C10: De Morgan.  For terms x and y, ~(x|y) and ~x&~y match the same
\* strings.  (The two patterns of a "pair" scenario are the two sides.)
C10_DeMorgan ==
    (pc = "done" /\ scn.kind = "pair" /\ scn.pats \in DeMorganPairs)
        => (Matched(1) <=> Matched(2))

\* C11: difference cancellation.  For a term r, match(r - r, s) returns the
\* empty mapping for every input s, also when the two occurrences of r were
\* parsed separately and their leaves carry different group numbers, as in
\* (a) - (a).
C11_DifferenceCancels ==
    LET p == scn.pats[1]
    IN (pc = "done" /\ scn.kind = "single" /\ scn.mode = "match"
        /\ p.op = "diff" /\ p.kids[1] = p.kids[2])
           => results[1] = EmptyMap

\* match(r - r, s) returned for an r that accepts the non-empty s, and whose
\* two copies are different objects.
C11_Witness ==
    /\ pc = "done" /\ scn.pats[1] \in {Diff(r, r) : r \in DiffTerms}
    /\ Len(string) >= 1
    /\ Accepts(scn.pats[1].kids[1], string)
    /\ root.cls = "Diff"
    /\ left(root, instance) # right(root, instance)
    /\ results[1] = EmptyMap

\* C12: the quantifiers are counted repetitions.  match gives the same
\* accept/reject answer, on every input, for x* and x{0,}, for x+ and x{1,},
\* and for x? and x{0,1}.  (The two patterns of the "pair" scenario.)
C12_QuantifiersAreCountedRepetitions ==
    (pc = "done" /\ scn.kind = "pair" /\ scn.pats \in QuantifierPairs)
        => (Matched(1) <=> Matched(2))

\* Both patterns of a pair accepted an input of two characters or more.
C12_Witness ==
    /\ pc = "done" /\ scn.kind = "pair" /\ scn.pats \in QuantifierPairs
    /\ Len(string) >= 2
    /\ Matched(1) /\ Matched(2)

\* C13: a counted repetition counts exactly.  match(x{n}, s) succeeds iff s
\* is a concatenation of n strings of L(x) (the empty string only, for
\* n = 0), x{m,n} iff of k strings with m <= k <= n, x{m,} iff of k >= m
\* strings, x{,n} iff of k <= n strings.
C13_CountedRepetitionCountsExactly ==
    (pc = "done" /\ scn.kind = "single" /\ scn.mode = "match"
     /\ scn.pats[1].op \in {"repn", "rep"})
        => (Matched(1) <=> Accepts(scn.pats[1], string))

\* x is a position of the input, not a span (told by how it is written, as
\* a number and a pair cannot be compared).
IsPosition(x) == ToString(x) \in {ToString(n) : n \in 0 .. MaxLen}

\* A list of (start, end) spans: every element is a pair of positions.
IsSpanList(v) ==
    \A k \in DOMAIN v :
        ~IsPosition(v[k]) /\ Len(v[k]) = 2 /\ IsPosition(v[k][1]) /\ IsPosition(v[k][2])

\* C14: the shape of the result.  Every non-empty mapping returned by
\* match, by search and by search(all=True) maps each group id to a list of
\* (start, end) spans, never to a bare (start, end) pair.
C14_ResultMapsToSpanLists ==
    (pc = "done" /\ Matched(1))
        => \A g \in DOMAIN results[1] : IsSpanList(results[1][g])

\* C15: the construction of the DFA terminates.  The worklist loop of
\* compile reaches an empty todo list; the terms reachable by repeated
\* derivation are few, so the loop is never found with work left once it
\* has labelled MaxStates terms.
C15_CompileTerminates ==
    (pc = "compile" /\ todo_list # {}) => Cardinality(dfa_states) < MaxStates

\* C16: two threads that call match, or search, on one compiled pattern at
\* the same time each get the result the call gives when it runs alone.
C16_ConcurrentCallsAgreeWithAlone ==
    (scn.kind = "threads" /\ pc = "done" /\ other.pc = "done")
        => (results[2] = results[1] /\ other.results[2] = results[1])

\* A pattern text the parser finds fault with.
RECURSIVE Invalid(_)
Invalid(n) ==
    \/ n.op \in {"illegal", "badrange", "syntax"}
    \/ \E i \in 1 .. Len(n.kids) : Invalid(n.kids[i])

\* C17: compile of a pattern with a lex error, a syntax error or a class
\* range in non-increasing order raises the invalid-pattern error: it never
\* gets as far as compiling, and returns nothing.
C17_InvalidPatternsAreRejected ==
    (scn.mode = "compile" /\ Invalid(scn.pats[1])) => (pc \in {"parse", "raised"} /\ results = <<>>)

\* C18: compile is idempotent.  Compiling a compiled pattern again, or the
\* same pattern text again, returns the same pattern object, and every state
\* of the first compile has, for every character, the transition it had
\* after the first compile: the same next state and the same contributing
\* set.
C18_CompileIsIdempotent ==
    (scn.mode = "compile" /\ Len(results) = 2)
        => /\ results[2].root = results[1].root
           /\ \A s \in DOMAIN results[1].goto :
                 s \in DOMAIN results[2].goto /\ results[2].goto[s] = results[1].goto[s]

\* A compiled pattern of three and more states, with a transition that has
\* contributing leaves, has been compiled a second time.
C18_Witness ==
    /\ scn.kind = "recompile" /\ Len(results) = 2
    /\ Cardinality(DOMAIN results[1].goto) >= 3
    /\ \E s \in DOMAIN results[2].goto : \E c \in Chars :
          /\ results[2].goto[s][c].states # {}
          /\ ~isempty(results[2].goto[s][c].next)

\* The states that can be reached from the states S through goto entries.
RECURSIVE Reachable(_)
Reachable(S) ==
    LET N == S \cup {goto[s][c].next : s \in S \cap DOMAIN goto, c \in Chars}
    IN  IF N = S THEN S ELSE Reachable(N)

\* C19: once compile has returned, every state that can be reached from the
\* pattern through goto entries is the dead state or has a table with an
\* entry for every character, whose target is the dead state or has a table
\* again; the walk of match and search stands on a state with a table
\* whenever it reads a character, and the call returns one mapping.
C19_TablesAreTotalAndClosed ==
    /\ pc \in {"run", "match", "search", "scan", "done"}
          => \A s \in Reachable({root}) :
                \/ isempty(s)
                \/ /\ s \in DOMAIN goto
                   /\ DOMAIN goto[s] = Chars
                   /\ \A c \in Chars : isempty(goto[s][c].next) \/ goto[s][c].next \in DOMAIN goto
    /\ (pc \in {"match", "scan"} /\ index < Len(string)) => state \in DOMAIN goto
    /\ pc = "done" => Len(results) = 1

\* A call on an input of two and more characters has returned a match, from
\* a pattern of three and more states one of which leads to the dead state.
C19_Witness ==
    /\ pc = "done" /\ Len(string) >= 2 /\ Matched(1)
    /\ Cardinality(Reachable({root})) >= 3
    /\ \E s \in Reachable({root}) : ~isempty(s) /\ \E c \in Chars : isempty(goto[s][c].next)

\* C20: for every term r of Regex._instance, nullable() of the term that
\* nullable() returns for r is that term again: nu(nu(r)) = nu(r).
C20_NullableIsIdempotent ==
    \A r \in DOMAIN instance :
        nullable(nullable(r, instance).t, nullable(r, instance).tab).t = nullable(r, instance).t

\* A call has returned with terms of all three kinds in Regex._instance:
\* one whose nullable() is Epsilon without being Epsilon itself, one whose
\* nullable() is Empty, and one whose nullable() is neither.
C20_Witness ==
    /\ pc = "done"
    /\ \E r \in DOMAIN instance : ~isepsilon(r) /\ isepsilon(nullable(r, instance).t)
    /\ \E r \in DOMAIN instance : ~isempty(r) /\ isempty(nullable(r, instance).t)
    /\ \E r \in DOMAIN instance :
          ~isepsilon(nullable(r, instance).t) /\ ~isempty(nullable(r, instance).t)

\* C21: Or(Or(a, b), c) and Or(a, Or(b, c)), built with the same keywords on
\* the same table, return the identical representative.
C21_OrIsAssociative ==
    (scn \in OrScenarios /\ pc = "done") => results[1] = results[2]

\* C22: once compile has returned, the entry of every compiled state s for
\* every character c holds the term s.derive(c) as its next state and the
\* leaves that derive call collects as its contributing set.
C22_TablesHoldTheDerivatives ==
    pc \in {"run", "done"} =>
        \A s \in dfa_states : \A c \in Chars :
            /\ goto[s][c].next = derive(s, c, FALSE, instance).t
            /\ goto[s][c].states = derive(s, c, FALSE, instance).st

\* C23: two constructor calls return the identical representative only if
\* they built the same term; in particular two expressions of calls that
\* denote different languages, as x - (y - z) and (x - y) - z do, never get
\* the same representative.
C23_IdentityMeansSameTerm ==
    (scn \in NestScenarios /\ pc = "done" /\ results[1] = results[2])
        => \A s \in Strings(0) : Accepts(scn.pats[1], s) <=> Accepts(scn.pats[2], s)

\* C24: for every term r of Regex._instance, nullable() returns the Epsilon
\* term or the Empty term, never any other term.
C24_NullableIsTwoValued ==
    \A r \in DOMAIN instance :
        isepsilon(nullable(r, instance).t) \/ isempty(nullable(r, instance).t)

\* The leaves below the term t, each with the parity of the Not nodes and
\* right-hand Diff operands on a path to it, p being the parity above t.
RECURSIVE Paths(_, _)
Paths(t, p) ==
    CASE t.cls \in {"Sym", "Dot"} -> {<<t, p>>}
      [] t.cls \in {"Empty", "Epsilon"} -> {}
      [] t.cls = "Not" -> Paths(expr(t, instance), ~p)
      [] t.cls \in {"Star", "Plus", "Opt", "Expr"} -> Paths(expr(t, instance), p)
      [] t.cls = "Diff" -> Paths(left(t, instance), p) \cup Paths(right(t, instance), ~p)
      [] OTHER -> Paths(left(t, instance), p) \cup Paths(right(t, instance), p)

\* Does the leaf accept the character: a Dot any, a class by its set and '^'.
LeafAccepts(leaf, c) == leaf.cls = "Dot" \/ ((c \in leaf.mask) # leaf.neg)

\* The leaves below t that the polarity rule lets contribute for c.
Gated(t, c) == {x[1] : x \in {y \in Paths(t, FALSE) : LeafAccepts(y[1], c) # y[2]}}

RECURSIVE HasConcat(_)
HasConcat(t) ==
    \/ t.cls = "Concat"
    \/ \E i \in 1 .. Len(instance[t].kids) : HasConcat(instance[t].kids[i])

\* C25: the leaves that derive(c) collects from a compiled state are leaves
\* the polarity rule lets through -- below the state on a path whose parity
\* of Not nodes and right-hand Diff operands differs from whether the leaf
\* accepts c -- and for a state without a concatenation, whose derive drops
\* nothing afterwards, they are all of those leaves.
C25_PolarityGatesLeaves ==
    pc \in {"run", "done"} =>
        \A s \in dfa_states : \A c \in Chars :
            /\ derive(s, c, FALSE, instance).st \subseteq Gated(s, c)
            /\ ~HasConcat(s) => derive(s, c, FALSE, instance).st = Gated(s, c)

\* A compiled state has a leaf under odd parity that contributes for a
\* character it does not accept, and one under even parity that does not.
C25_Witness ==
    /\ pc = "done"
    /\ \E s \in dfa_states : \E c \in Chars : \E x \in Paths(s, FALSE) :
          /\ x[2] /\ ~LeafAccepts(x[1], c)
          /\ x[1] \in derive(s, c, FALSE, instance).st
    /\ \E s \in dfa_states : \E c \in Chars : \E x \in Paths(s, FALSE) :
          /\ ~x[2] /\ ~LeafAccepts(x[1], c)
          /\ x[1] \notin derive(s, c, FALSE, instance).st

\* C26: the non-empty masks of the charset of every term of Regex._instance
\* are pairwise disjoint and together cover the alphabet: every character
\* lies in exactly one class.
C26_CharsetsArePartitions ==
    \A t \in DOMAIN instance : \A c \in Chars :
        Cardinality({m \in instance[t].charset : c \in m}) = 1

\* compile has returned for a pattern one of whose terms has three classes,
\* made by intersecting the classes of its operands.
C26_Witness ==
    /\ pc = "done" /\ scn.mode = "compile"
    /\ \E t \in DOMAIN instance :
          /\ t.cls \in {"Or", "And", "Xor", "Diff", "Concat"}
          /\ Cardinality(instance[t].charset \ {{}}) >= 3

\* C27: an attempt of search that does not end the call leaves offset
\* strictly greater than it was, at most the length of the input, and behind
\* the character read last; offset does not move inside an attempt, whose
\* walk starts at offset.  So there are at most len(s) attempts, and every
\* span that search(all=True) records on ending an attempt has start < end.
C27_SearchMakesProgress ==
    /\ [](pc = "scan" => (offset <= index /\ offset < Len(string)))
    /\ [][/\ (pc = "scan" /\ pc' = "search")
               => (offset' > offset /\ offset' = index + 1 /\ offset' <= Len(string))
          /\ (pc = "scan" /\ pc' = "scan") => offset' = offset
          /\ (pc = "scan" /\ all_groups' # all_groups)
               => \A g \in DOMAIN all_groups' :
                     \A i \in 1 .. Len(all_groups'[g]) :
                        all_groups'[g][i][1] < all_groups'[g][i][2]]_vars

\* search(all=True) has returned after an attempt that died and two that
\* found a match.
C27_Witness ==
    /\ pc = "done" /\ scn.mode = "searchall"
    /\ \E g \in DOMAIN results[1] :
          /\ Len(results[1][g]) = 2
          /\ results[1][g][1][2] < results[1][g][2][1]

\* What GroupInfo holds after the call step(i, G) the walk is about to make.
AfterStep ==
    step(group_info, index, GotoGroup(goto[state][string[index + 1]], instance))

\* The walk of match or of an attempt of search is about to call step.
BeforeStep ==
    /\ pc \in {"match", "scan"}
    /\ index < Len(string)
    /\ ~isempty(goto[state][string[index + 1]].next)

\* C28: after every call step(i, G) that match and search make, the active
\* gids are exactly G, every active start is <= i and every span finalized
\* so far has start < end <= i; after close(e), which search calls with
\* e = i + 1 and match with e = len(string), no gid is active and the spans
\* that close finalized have start < e.
C28_TrackerInvariant ==
    /\ BeforeStep =>
          /\ DOMAIN AfterStep.active
                = GotoGroup(goto[state][string[index + 1]], instance)
          /\ \A g \in DOMAIN AfterStep.active : AfterStep.active[g] <= index
          /\ \A g \in DOMAIN AfterStep.final :
                AfterStep.final[g][1] < AfterStep.final[g][2]
                /\ AfterStep.final[g][2] <= index
          /\ LET closed == close(AfterStep, index + 1)
             IN /\ DOMAIN closed.active = {}
                /\ \A g \in DOMAIN AfterStep.active :
                      closed.final[g] = <<AfterStep.active[g], index + 1>>
                      /\ closed.final[g][1] < index + 1
    /\ (pc = "match" /\ index = Len(string)) =>
          LET closed == close(group_info, Len(string))
          IN /\ DOMAIN closed.active = {}
             /\ \A g \in DOMAIN group_info.active :
                   closed.final[g] = <<group_info.active[g], Len(string)>>
                   /\ closed.final[g][1] < Len(string)

\* A step that starts one group and ends another, in a walk that holds a
\* finalized span and an active group.
C28_Witness ==
    /\ BeforeStep
    /\ DOMAIN AfterStep.active \ DOMAIN group_info.active # {}
    /\ DOMAIN group_info.active \ DOMAIN AfterStep.active # {}
    /\ DOMAIN group_info.final # {}

\* The loop over the classes of the state s in one fixed order: the row of
\* s, the worklist and the table when the classes cl are done.
RECURSIVE FixedClasses(_, _, _, _, _, _)
FixedClasses(s, cl, row, todo, done, tab) ==
    IF cl = {} THEN [row |-> row, todo |-> todo, tab |-> tab]
    ELSE LET m == CHOOSE x \in cl : TRUE
             d == derive(s, Min(m), FALSE, tab)
         IN FixedClasses(s, cl \ {m},
                         [c \in Chars |-> IF c \in m THEN [next |-> d.t, states |-> d.st]
                                                     ELSE row[c]],
                         IF d.t \notin done THEN todo \cup {d.t} ELSE todo,
                         done, d.tab)

\* The worklist loop with one fixed choice of the element that pop()
\* returns: the labelled states, their labels and their rows.
RECURSIVE FixedOrder(_, _, _, _, _)
FixedOrder(todo, done, num, gt, tab) ==
    IF todo = {} \/ Cardinality(done) >= MaxStates
    THEN [dfa_states |-> done, state_number |-> num, goto |-> gt]
    ELSE LET s == CHOOSE x \in todo : TRUE
             default_goto == [next |-> RegexEmpty(NoKw, tab).t, states |-> {}]
             r == FixedClasses(s, tab[s].charset \ {{}}, [c \in Chars |-> default_goto],
                               todo \ {s}, done \cup {s}, tab)
         IN FixedOrder(r.todo, done \cup {s}, (s :> Cardinality(done)) @@ num,
                       (s :> r.row) @@ gt, r.tab)

\* compile of the first pattern of the scenario with that fixed order, from
\* the table as the parser left it.
FixedCompile ==
    FixedOrder({root}, {}, EmptyMap, EmptyMap,
               RegexEmpty(NoKw, parse(scn.pats[1], EmptyMap).tab).tab)

\* C29: whatever todo_list.pop() returned on the way, compile ends with the
\* same set of labelled terms and, for each of them and every character,
\* the same next term and the same contributing set as the compile that
\* pops in one fixed order.
C29_TablesDoNotDependOnOrder ==
    (pc = "run" /\ job = 1) =>
        /\ dfa_states = FixedCompile.dfa_states
        /\ \A s \in dfa_states : goto[s] = FixedCompile.goto[s]

\* compile has ended with labels other than those of the fixed order.
C29_Witness ==
    /\ pc = "run" /\ job = 1
    /\ dfa_states = FixedCompile.dfa_states
    /\ \E s \in dfa_states : state_number[s] # FixedCompile.state_number[s]

\* The number of groups of a pattern.
RECURSIVE NGroups(_)
NGroups(n) ==
    (IF n.op = "grp" THEN 1 ELSE 0)
    + (IF Len(n.kids) >= 1 THEN NGroups(n.kids[1]) ELSE 0)
    + (IF Len(n.kids) >= 2 THEN NGroups(n.kids[2]) ELSE 0)

\* The groups that consume a character in some way of matching the whole of
\* s against the pattern n, a pattern of literals, concatenation,
\* alternation, '*', '+', '?' and parentheses whose groups are numbered by
\* their opening parenthesis from gid on.
RECURSIVE Consuming(_, _, _)
Consuming(n, s, gid) ==
    LET k1 == n.kids[1]
        k2 == n.kids[2]
        Piece(i, j) == SubSeq(s, i + 1, j)
        Again ==
            UNION {IF Accepts(k1, Piece(0, j)) /\ Accepts(n, Piece(j, Len(s)))
                   THEN Consuming(k1, Piece(0, j), gid)
                        \cup Consuming(n, Piece(j, Len(s)), gid)
                   ELSE {} : j \in 1 .. Len(s)}
    IN IF ~Accepts(n, s) THEN {}
       ELSE CASE n.op = "grp" ->
                    (IF Len(s) >= 1 THEN {gid} ELSE {}) \cup Consuming(k1, s, gid + 1)
              [] n.op = "cat" ->
                    UNION {IF Accepts(k1, Piece(0, j)) /\ Accepts(k2, Piece(j, Len(s)))
                           THEN Consuming(k1, Piece(0, j), gid)
                                \cup Consuming(k2, Piece(j, Len(s)), gid + NGroups(k1))
                           ELSE {} : j \in 0 .. Len(s)}
              [] n.op = "or" ->
                    Consuming(k1, s, gid) \cup Consuming(k2, s, gid + NGroups(k1))
              [] n.op = "opt" -> Consuming(k1, s, gid)
              [] n.op = "star" -> Again
              [] n.op = "plus" -> Consuming(k1, s, gid) \cup Again
              [] OTHER -> {}

\* C30: no capture from a branch that was not selected.  When match(r, s)
\* succeeds, a gid other than 0 is in the mapping only if some way of
\* matching the whole of s against r lets that group consume a character
\* (stated for the patterns without complement, difference, symmetric
\* difference, intersection and counted repetition).
C30_NoCaptureFromUnselectedBranch ==
    (pc = "done" /\ scn.kind = "single" /\ scn.mode = "match"
     /\ IsPlain(scn.pats[1]) /\ Matched(1))
        => (DOMAIN results[1] \ {0}) \subseteq Consuming(scn.pats[1], string, 1)

====
